---- MODULE Spec2Model ----
(***************************************************************************)
(* Brainfuck genetic-algorithm playground: the interpreter                 *)
(* (src/src/utils/brainfuck.ts) and the population manager                 *)
(* (src/src/utils/genetic-algorithm.ts) as state machines.                 *)
(*                                                                         *)
(* A program string is a sequence of one-character strings; an input or    *)
(* output string is a sequence of character codes.  Math.random() is a     *)
(* nondeterministic choice: a function that draws at random is modelled by *)
(* the set of results its draws can produce.                               *)
(***************************************************************************)
EXTENDS Integers, Sequences, FiniteSets, TLC

VARIABLES
  settings,       \* GeneticAlgorithm.settings
  trainCases,     \* GeneticAlgorithm.trainCases
  testCases,      \* GeneticAlgorithm.testCases
  population,     \* GeneticAlgorithm.population
  generation,     \* GeneticAlgorithm.generation
  seedGenomes,    \* GeneticAlgorithm.seedGenomes
  pc,             \* position of the running GeneticAlgorithm method
  newPopulation,  \* evolve(): const newPopulation
  uniqueCodes,    \* initialize()/evolve(): const uniqueCodes
  attempts,       \* evolve(): let attempts
  call,           \* history: the last of initialize()/evolve() to end, and how
  app,            \* App: its React state, the timers it has set, the handler running, history
  bf              \* one call of a function of brainfuck.ts: arguments, locals, position, history

gaVars == <<settings, trainCases, testCases, population, generation, seedGenomes,
            pc, newPopulation, uniqueCodes, attempts, call>>

vars == <<settings, trainCases, testCases, population, generation, seedGenomes,
          pc, newPopulation, uniqueCodes, attempts, call, app, bf>>

----------------------------------------------------------------------------
(* Bounds of the model *)

\* longest program drawn as an argument of executeBrainfuck
MaxCodeLen == 3

\* largest step budget drawn as an argument of executeBrainfuck
MaxSteps == 5

\* largest settings.populationSize
MaxPop == 3

\* largest settings.maxProgramLength
MaxProgLen == 2

\* evolve() is not called once generation has reached this
MaxGen == 1

\* calls of executeBrainfuck one after the other
MaxCalls == 3

\* length of the longest seed genome
MaxSeedLen == 52

\* setInterval calls of the App the model follows
MaxTimers == 2

\* generations the model follows evolve() for under the App
MaxTicks == 3

----------------------------------------------------------------------------
(* Program constants *)

\* new Array(30000)
TapeSize == 30000

\* Variant of the cell arithmetic with one value more (0 to 256).
CellModWide == 2 ^ 8 + 1

\* % 256
CellMod == 256

\* Variant of the default of maxSteps that is used up inside "+[-]".
TightMaxSteps == MaxSteps - 2

\* maxSteps = 10000
DefaultMaxSteps == 10000

\* what codePointer holds after `codePointer = bracketMap[codePointer]` found no
\* entry (undefined) and `codePointer++` made it NaN; no index is negative
NaN == -1

commands == <<">", "<", "+", "-", ".", ",", "[", "]">>

Range(s) == {s[i] : i \in DOMAIN s}

Min(a, b) == IF a < b THEN a ELSE b

Max(a, b) == IF a > b THEN a ELSE b

\* s.slice(from, to) / s.substring(from, to) for 0 <= from, 0 <= to (0-based, to excluded)
Slice(s, from, to) == SubSeq(s, from + 1, Min(to, Len(s)))

----------------------------------------------------------------------------
(* brainfuck.ts: buildBracketMap *)

\* Variant of one iteration that takes the oldest open bracket off the stack
\* (stack.shift() for stack.pop()).
BracketScanOldest(code, i, st) ==
  IF code[i + 1] = "["
    THEN [st EXCEPT !.stack = Append(st.stack, i)]
    ELSE IF code[i + 1] = "]" /\ Len(st.stack) > 0
      THEN LET start == st.stack[1]
           IN [map |-> [k \in DOMAIN st.map \cup {start, i} |->
                          IF k = start THEN i
                          ELSE IF k = i THEN start
                          ELSE st.map[k]],
               stack |-> SubSeq(st.stack, 2, Len(st.stack))]
      ELSE st

\* One iteration of the for loop: st is [map, stack], i the 0-based index.
BracketScan(code, i, st) ==
  IF code[i + 1] = "["
    THEN [st EXCEPT !.stack = Append(st.stack, i)]
    ELSE IF code[i + 1] = "]" /\ Len(st.stack) > 0
      THEN LET start == st.stack[Len(st.stack)]
           IN [map |-> [k \in DOMAIN st.map \cup {start, i} |->
                          IF k = start THEN i
                          ELSE IF k = i THEN start
                          ELSE st.map[k]],
               stack |-> SubSeq(st.stack, 1, Len(st.stack) - 1)]
      ELSE st

\* lines 64-75: the for loop from index i on.  (The stack holds indices below
\* i; the test has st evaluated before the next iteration, not after the last.)
RECURSIVE BracketLoop(_, _, _)
BracketLoop(code, i, st) ==
  IF i < Len(code) /\ Len(st.stack) <= i
    THEN BracketLoop(code, i + 1, BracketScan(code, i, st))
    ELSE st

\* The match table: a function on the indices that have an entry.
buildBracketMap(code) == BracketLoop(code, 0, [map |-> <<>>, stack |-> <<>>]).map

----------------------------------------------------------------------------
(* brainfuck.ts: executeBrainfuck *)

\* memory is kept as the function of its non-zero cells; every other cell
\* of the TapeSize cells holds the 0 it was filled with.
Cell(memory, p) == IF p \in DOMAIN memory THEN memory[p] ELSE 0

Store(memory, p, v) ==
  IF v = 0
    THEN [q \in DOMAIN memory \ {p} |-> memory[q]]
    ELSE [q \in DOMAIN memory \cup {p} |-> IF q = p THEN v ELSE memory[q]]

\* An input that is no string (TestCase is a compile-time type only): reading
\* input.length at line 35 throws a TypeError.
Undefined == <<0 - 1>>

\* The locals after the declarations of lines 5-12; threw records an exception
\* leaving the function.
StartLocals(code) ==
  [memory |-> <<>>, pointer |-> 0, codePointer |-> 0, inputPointer |-> 0,
   output |-> <<>>, steps |-> 0, bracketMap |-> buildBracketMap(code), threw |-> FALSE]

\* Variant of line 5 that goes on with the tape the call before has left.
KeptMemory(left) == left

\* line 5: memory is a new array filled with 0, whatever tape an earlier call
\* (left) has ended with
NewMemory(left) == <<>>

\* Variant that steps over a bracket without partner as over any other symbol.
JumpOver(map, cp) == IF cp \in DOMAIN map THEN map[cp] + 1 ELSE cp + 1

\* codePointer = bracketMap[codePointer], then codePointer++ : undefined + 1 is NaN
Jump(map, cp) == IF cp \in DOMAIN map THEN map[cp] + 1 ELSE NaN

\* Variant of the while condition with steps <= maxSteps: one iteration more.
RunningInclusive(code, maxSteps, c) ==
  /\ ~c.threw
  /\ c.codePointer # NaN
  /\ c.codePointer < Len(code)
  /\ c.steps <= maxSteps

\* The while condition of line 14 (NaN < code.length is false).
Running(code, maxSteps, c) ==
  /\ ~c.threw
  /\ c.codePointer # NaN
  /\ c.codePointer < Len(code)
  /\ c.steps < maxSteps

\* Variant of line 22 without the wrap.
LeftUnwrapped(pointer) == pointer - 1

\* line 22: (pointer - 1 + memory.length) % memory.length
Left(pointer) == (pointer - 1 + TapeSize) % TapeSize

\* Variant of line 39 that stores -1, as a byte, at the end of the input.
EndOfInputMinusOne == 2 ^ 8 - 1

\* line 39: the value ',' stores once the input is used up
EndOfInput == 0

\* One iteration of the while loop, lines 15-54.
ExecStep(code, input, c) ==
  LET command == code[c.codePointer + 1]
      cur == Cell(c.memory, c.pointer)
      s == [c EXCEPT !.steps = c.steps + 1]
      next == c.codePointer + 1
  IN CASE command = ">" ->
            [s EXCEPT !.pointer = (c.pointer + 1) % TapeSize, !.codePointer = next]
       [] command = "<" ->
            [s EXCEPT !.pointer = Left(c.pointer), !.codePointer = next]
       [] command = "+" ->
            [s EXCEPT !.memory = Store(c.memory, c.pointer, (cur + 1) % CellMod),
                      !.codePointer = next]
       [] command = "-" ->
            [s EXCEPT !.memory = Store(c.memory, c.pointer, (cur - 1 + CellMod) % CellMod),
                      !.codePointer = next]
       [] command = "." ->
            [s EXCEPT !.output = Append(c.output, cur), !.codePointer = next]
       [] command = "," ->
            IF input = Undefined
              THEN [s EXCEPT !.threw = TRUE]
            ELSE IF c.inputPointer < Len(input)
              THEN [s EXCEPT !.memory = Store(c.memory, c.pointer, input[c.inputPointer + 1]),
                             !.inputPointer = c.inputPointer + 1,
                             !.codePointer = next]
              ELSE [s EXCEPT !.memory = Store(c.memory, c.pointer, EndOfInput),
                             !.codePointer = next]
       [] command = "[" ->
            IF cur = 0
              THEN [s EXCEPT !.codePointer = Jump(c.bracketMap, c.codePointer)]
              ELSE [s EXCEPT !.codePointer = next]
       [] command = "]" ->
            IF cur # 0
              THEN [s EXCEPT !.codePointer = Jump(c.bracketMap, c.codePointer)]
              ELSE [s EXCEPT !.codePointer = next]
       [] OTHER -> [s EXCEPT !.codePointer = next]

RECURSIVE ExecLoop(_, _, _, _)
ExecLoop(code, input, maxSteps, c) ==
  IF Running(code, maxSteps, c)
    THEN ExecLoop(code, input, maxSteps, ExecStep(code, input, c))
    ELSE c

\* The locals when the call ends: .output is returned unless .threw.
executeBrainfuck(code, input, maxSteps) ==
  ExecLoop(code, input, maxSteps, StartLocals(code))

----------------------------------------------------------------------------
(* brainfuck.ts: the random operators.  Each is the set of the results its *)
(* Math.random() draws can produce.                                        *)

\* The symbols commands[Math.floor(Math.random() * commands.length)] draws in
\* this model, a part of commands: in a call of generateRandomProgram alone
\* the two brackets and one more command, everywhere else two commands that
\* are not brackets.
Drawn == IF bf.pc = "generate" THEN {"+", "[", "]"} ELSE {",", "."}

\* Math.random() < rate, rate in percent: which outcomes Math.random() in [0, 1) allows
CanHit(rate) == rate > 0

CanMiss(rate) == rate < 100

\* The first n symbols of s.
Prefix(s, n) == SubSeq(s, 1, Min(Len(s), Max(n, 0)))

\* S with one drawn symbol appended to each member, cut to cap symbols.
AppendDrawn(S, cap) == {Prefix(Append(m, x), cap) : m \in S, x \in Drawn}

\* S with times drawn symbols appended, one after the other.
RECURSIVE AppendDrawnTimes(_, _, _)
AppendDrawnTimes(S, times, cap) ==
  IF times = 0 THEN S ELSE AppendDrawnTimes(AppendDrawn(S, cap), times - 1, cap)

\* S with 1 to most drawn symbols appended.
RECURSIVE AppendDrawnUpTo(_, _, _)
AppendDrawnUpTo(S, most, cap) ==
  IF most <= 0 THEN {}
  ELSE LET one == AppendDrawn(S, cap)
       IN one \cup AppendDrawnUpTo(one, most - 1, cap)

\* S with 1 to most drawn symbols put in front (mutated = command + mutated).
RECURSIVE PrependDrawnUpTo(_, _)
PrependDrawnUpTo(S, most) ==
  IF most <= 0 THEN {}
  ELSE LET one == {<<x>> \o m : m \in S, x \in Drawn}
       IN one \cup PrependDrawnUpTo(one, most - 1)

(* generateRandomProgram, lines 82-118.  S is the set of [program, bracketDepth]
   the for loop can hold before iteration i.  Once program holds maxLength
   symbols it is kept as it is: line 114 cuts off whatever the later iterations
   append, and the closing loop of line 107 does not run, so bracketDepth is no
   longer read. *)
\* Variant of one iteration of the for loop without the filter of lines 91-93.
GenerateDrawAny(p, maxLength) ==
  IF Len(p.program) >= maxLength /\ maxLength >= 0
    THEN {[program |-> p.program, bracketDepth |-> 0]}
    ELSE {[program |-> Append(p.program, command),
           bracketDepth |-> IF command = "[" THEN p.bracketDepth + 1
                            ELSE IF command = "]" THEN p.bracketDepth - 1
                            ELSE p.bracketDepth] :
            command \in Drawn}

\* one iteration of the for loop, lines 87-104
GenerateDraw(p, maxLength) ==
  IF Len(p.program) >= maxLength /\ maxLength >= 0
    THEN {[program |-> p.program, bracketDepth |-> 0]}
    ELSE {[program |-> Append(p.program, command),
           bracketDepth |-> IF command = "[" THEN p.bracketDepth + 1
                            ELSE IF command = "]" THEN p.bracketDepth - 1
                            ELSE p.bracketDepth] :
            command \in IF p.bracketDepth = 0 THEN Drawn \ {"]"} ELSE Drawn}

RECURSIVE GenerateLoop(_, _, _, _)
GenerateLoop(i, length, maxLength, S) ==
  IF i < length
    THEN GenerateLoop(i + 1, length, maxLength,
                      UNION {GenerateDraw(p, maxLength) : p \in S})
    ELSE S

\* lines 106-110: close the open brackets while the program is shorter than maxLength
RECURSIVE CloseBrackets(_, _, _)
CloseBrackets(program, bracketDepth, maxLength) ==
  IF bracketDepth > 0 /\ Len(program) < maxLength
    THEN CloseBrackets(Append(program, "]"), bracketDepth - 1, maxLength)
    ELSE program

generateRandomProgram(length, maxLength) ==
  {Prefix(CloseBrackets(p.program, p.bracketDepth, maxLength), maxLength) :
     p \in GenerateLoop(0, length, maxLength, {[program |-> <<>>, bracketDepth |-> 0]})}

(* mutateProgram, lines 123-186.  mutated is kept to its first maxLength + 5
   symbols: the shrink pass removes at most 5 symbols and line 182 keeps the
   first maxLength, so a later symbol never reaches the result, and the tests
   length < maxLength and length > 3 read the same. *)
MutateCap(maxLength) == Max(maxLength, 0) + 5

\* lines 128-152: cur is the set of values of mutated when the loop reaches index
\* i, skipped those that reach index i + 1 by the i++ of line 146.  (With both
\* empty no draw reaches index i, and none a later one.)
RECURSIVE MutateSymbols(_, _, _, _, _, _)
MutateSymbols(program, mutationRate, cap, i, cur, skipped) ==
  IF i >= Len(program) \/ cur \cup skipped = {} THEN cur
  ELSE LET withOriginal == {Prefix(Append(m, program[i + 1]), cap) : m \in cur}
           unchanged == IF CanMiss(mutationRate) THEN withOriginal ELSE {}
           replaced == IF CanHit(mutationRate) THEN AppendDrawn(cur, cap) ELSE {}
           grown == IF CanHit(mutationRate)
                      THEN AppendDrawnUpTo(withOriginal, 4, cap) ELSE {}
           deleted == IF CanHit(mutationRate) THEN cur ELSE {}
           deletedTwo == IF CanHit(mutationRate) /\ i + 1 < Len(program) THEN cur ELSE {}
       IN IF i + 1 < Len(program)
            THEN MutateSymbols(program, mutationRate, cap, i + 1,
                               skipped \cup unchanged \cup replaced \cup grown \cup deleted,
                               deletedTwo)
            ELSE skipped \cup unchanged \cup replaced \cup grown \cup deleted

\* lines 155-171: prepend or append 1 to min(5, maxLength - length) symbols, or nothing
MutateGrow(mutated, mutationRate, maxLength) ==
  {mutated} \cup
  IF CanHit(mutationRate) /\ Len(mutated) < maxLength
    THEN LET maxGrowth == Min(5, maxLength - Len(mutated))
         IN PrependDrawnUpTo({mutated}, maxGrowth)
              \cup AppendDrawnUpTo({mutated}, maxGrowth, maxLength)
    ELSE {}

\* lines 174-178: remove one segment of 1 to 5 symbols, or nothing
MutateShrink(mutated, mutationRate) ==
  {mutated} \cup
  IF CanHit(mutationRate) /\ Len(mutated) > 3
    THEN UNION {{Slice(mutated, 0, segmentStart)
                   \o Slice(mutated, segmentStart + segmentLength, Len(mutated)) :
                   segmentLength \in 1 .. Min(Len(mutated) - segmentStart, 5)} :
                segmentStart \in 0 .. Len(mutated) - 1}
    ELSE {}

\* Variant of lines 181-185 that returns mutated without the `|| '+'`.
MutateCut(mutated, maxLength) ==
  IF Len(mutated) > maxLength THEN Prefix(mutated, maxLength) ELSE mutated

\* lines 181-185: cut to maxLength, and never return the empty program
\* Variant of lines 181-185 without the cut of lines 181-183.
MutateUncut(mutated, maxLength) == IF mutated = <<>> THEN <<"+">> ELSE mutated

MutateFinish(mutated, maxLength) ==
  LET cut == IF Len(mutated) > maxLength THEN Prefix(mutated, maxLength) ELSE mutated
  IN IF cut = <<>> THEN <<"+">> ELSE cut

\* lines 125-178: the values mutated can hold when line 181 is reached
MutateShrunk(program, mutationRate, maxLength) ==
  LET passed == IF program = <<>> THEN {<<>>}
                ELSE MutateSymbols(program, mutationRate, MutateCap(maxLength), 0, {<<>>}, {})
      grownUp == UNION {MutateGrow(m, mutationRate, maxLength) : m \in passed}
  IN UNION {MutateShrink(m, mutationRate) : m \in grownUp}

mutateProgram(program, mutationRate, maxLength) ==
  {MutateFinish(m, maxLength) : m \in MutateShrunk(program, mutationRate, maxLength)}

\* interleavePrograms, lines 261-287: the results from the position (i1, i2,
\* useFirst, result) of the while loop on.  The draw of segmentLength is read
\* only through end = min(i + segmentLength, length).
SegmentEnds(i, length) == {Min(i + segmentLength, length) : segmentLength \in 1 .. 5}

RECURSIVE InterleaveLoop(_, _, _, _, _, _)
InterleaveLoop(prog1, prog2, i1, i2, useFirst, result) ==
  IF ~(i1 < Len(prog1) \/ i2 < Len(prog2))
    THEN {IF result = <<>> THEN <<"+">> ELSE result}
    ELSE LET take1 == useFirst /\ i1 < Len(prog1)
             take2 == ~take1 /\ ~useFirst /\ i2 < Len(prog2)
             \* useFirst = !useFirst, then the two corrections of lines 282-283
             Flip(end1, end2) ==
               IF end2 >= Len(prog2) THEN TRUE
               ELSE IF end1 >= Len(prog1) THEN FALSE
               ELSE ~useFirst
         IN IF take1
              THEN UNION {InterleaveLoop(prog1, prog2, end, i2, Flip(end, i2),
                                         result \o Slice(prog1, i1, end)) :
                          end \in SegmentEnds(i1, Len(prog1))}
            ELSE IF take2
              THEN UNION {InterleaveLoop(prog1, prog2, i1, end, Flip(i1, end),
                                         result \o Slice(prog2, i2, end)) :
                          end \in SegmentEnds(i2, Len(prog2))}
            ELSE InterleaveLoop(prog1, prog2, i1, i2, Flip(i1, i2), result)

interleavePrograms(prog1, prog2) == InterleaveLoop(prog1, prog2, 0, 0, TRUE, <<>>)

\* lines 236-254: the pairs [child1, child2] the uniform loop can build from index i on
RECURSIVE UniformLoop(_, _, _, _, _)
UniformLoop(parent1, parent2, i, child1, child2) ==
  IF i >= Max(Len(parent1), Len(parent2))
    THEN {<<IF child1 = <<>> THEN <<"+">> ELSE child1,
            IF child2 = <<>> THEN <<"+">> ELSE child2>>}
    ELSE LET char1 == IF i < Len(parent1) THEN <<parent1[i + 1]>> ELSE <<>>
             char2 == IF i < Len(parent2) THEN <<parent2[i + 1]>> ELSE <<>>
         IN UniformLoop(parent1, parent2, i + 1, child1 \o char1, child2 \o char2)
              \cup UniformLoop(parent1, parent2, i + 1, child1 \o char2, child2 \o char1)

\* Variant of the cut point that can also be the length of the parent.
PointsInclusive(parent) == 0 .. Len(parent)

\* Math.floor(Math.random() * parent.length), lines 200-201
Points(parent) == 0 .. Len(parent) - 1

\* crossoverPrograms, lines 191-256: the pairs <<child1, child2>> it can return
crossoverPrograms(parent1, parent2) ==
  IF Len(parent1) = 0 \/ Len(parent2) = 0 THEN {<<parent1, parent2>>}
  ELSE LET singlePoint ==
             {<<Slice(parent1, 0, point1) \o Slice(parent2, point2, Len(parent2)),
                Slice(parent2, 0, point2) \o Slice(parent1, point1, Len(parent1))>> :
                point1 \in Points(parent1), point2 \in Points(parent2)}
           \* <<start, end>> with end = min(start + floor(random * (length - start)), length)
           Cuts(parent) ==
             UNION {{<<start, Min(start + d, Len(parent))>> :
                       d \in 0 .. Len(parent) - start - 1} :
                    start \in 0 .. Len(parent) - 1}
           twoPoint ==
             {<<Slice(parent1, 0, c1[1]) \o Slice(parent2, c2[1], c2[2])
                  \o Slice(parent1, c1[2], Len(parent1)),
                Slice(parent2, 0, c2[1]) \o Slice(parent1, c1[1], c1[2])
                  \o Slice(parent2, c2[2], Len(parent2))>> :
                c1 \in Cuts(parent1), c2 \in Cuts(parent2)}
           interleaved ==
             interleavePrograms(parent1, parent2) \X interleavePrograms(parent2, parent1)
           concatenated ==
             {parent1 \o parent2, parent2 \o parent1} \X {parent2 \o parent1, parent1 \o parent2}
           uniform == UniformLoop(parent1, parent2, 0, <<>>, <<>>)
       IN singlePoint \cup twoPoint \cup interleaved \cup concatenated \cup uniform

----------------------------------------------------------------------------
(* genetic-algorithm.ts: the evaluator *)

\* Accuracy and fitness are held in 1/Unit of a percentage point, so that
\* passed / cases * 100 and length * 0.1 are whole numbers (1 to 6 cases).
Unit == 6 * 10

\* the string '[ERROR]'
ErrorMarker == <<91, 69, 82, 82, 79, 82, 93>>

\* Variant of the catch block that pushes '[ERROR]' with the result true.
RunCaseLenient(code, testCase) ==
  LET run == executeBrainfuck(code, testCase.input, DefaultMaxSteps)
  IN IF run.threw
       THEN [output |-> ErrorMarker, passed |-> TRUE]
       ELSE [output |-> run.output, passed |-> run.output = testCase.expected]

\* lines 136-145 (and 154-163): one case under try/catch
RunCase(code, testCase) ==
  LET run == executeBrainfuck(code, testCase.input, DefaultMaxSteps)
  IN IF run.threw
       THEN [output |-> ErrorMarker, passed |-> FALSE]
       ELSE [output |-> run.output, passed |-> run.output = testCase.expected]

Accuracy(passed, total) == IF total > 0 THEN (passed * 100 * Unit) \div total ELSE 0

\* Variant of the length penalty without the limit of 5.
LengthPenaltyUnlimited(code) == Len(code) * (Unit \div 10)

\* line 171: Math.min(code.length * 0.1, 5)
LengthPenalty(code) == Min(Len(code) * (Unit \div 10), 5 * Unit)

\* evaluateIndividual, lines 129-190
evaluateIndividual(code, trainCs, testCs) ==
  LET trainRuns == [i \in 1 .. Len(trainCs) |-> RunCase(code, trainCs[i])]
      testRuns == [i \in 1 .. Len(testCs) |-> RunCase(code, testCs[i])]
      trainResults == [i \in 1 .. Len(trainCs) |-> trainRuns[i].passed]
      trainOutputs == [i \in 1 .. Len(trainCs) |-> trainRuns[i].output]
      testResults == [i \in 1 .. Len(testCs) |-> testRuns[i].passed]
      passedTrainTests == Cardinality({i \in 1 .. Len(trainCs) : trainResults[i]})
      passedTestTests == Cardinality({i \in 1 .. Len(testCs) : testResults[i]})
      trainAccuracy == Accuracy(passedTrainTests, Len(trainCs))
      testAccuracy == Accuracy(passedTestTests, Len(testCs))
      lengthPenalty == LengthPenalty(code)
      fitness == Max(0, trainAccuracy - lengthPenalty)
  IN [code |-> code, fitness |-> fitness, accuracy |-> trainAccuracy,
      results |-> trainResults, outputs |-> trainOutputs,
      trainResults |-> trainResults, testResults |-> testResults,
      trainAccuracy |-> trainAccuracy, testAccuracy |-> testAccuracy]

----------------------------------------------------------------------------
(* genetic-algorithm.ts: ranking and selection *)

\* Array.prototype.sort with (a, b) => b.fitness - a.fitness: stable, so ind
\* goes behind every member that does not rank strictly below it
InsertRanked(sorted, ind) ==
  LET ahead == {i \in 1 .. Len(sorted) : sorted[i].fitness >= ind.fitness}
      k == IF ahead = {} THEN 0 ELSE CHOOSE i \in ahead : \A j \in ahead : j <= i
  IN SubSeq(sorted, 1, k) \o <<ind>> \o SubSeq(sorted, k + 1, Len(sorted))

RECURSIVE SortFrom(_, _, _)
SortFrom(pop, i, sorted) ==
  IF i > Len(pop) THEN sorted ELSE SortFrom(pop, i + 1, InsertRanked(sorted, pop[i]))

\* Variant that leaves the order as it is.
SortUnchanged(pop) == pop

\* sortPopulation, lines 206-208
sortPopulation(pop) == SortFrom(pop, 1, <<>>)

\* tournamentSelection, lines 192-204, on a non-empty population: the
\* individuals the three draws can select
tournamentSelection(pop) ==
  {LET first == pop[d1]
       second == IF pop[d2].fitness > first.fitness THEN pop[d2] ELSE first
   IN IF pop[d3].fitness > second.fitness THEN pop[d3] ELSE second :
   d1 \in 1 .. Len(pop), d2 \in 1 .. Len(pop), d3 \in 1 .. Len(pop)}

\* getBestIndividual, lines 210-212: a sequence of the best individual, empty for null
getBestIndividual(pop) == IF Len(pop) > 0 THEN <<pop[1]>> ELSE <<>>

\* Variant that reads the training accuracy alone.
PerfectOnTrain(pop, testCs) ==
  LET best == getBestIndividual(pop)
  IN IF best = <<>> THEN FALSE ELSE best[1].trainAccuracy = 100 * Unit

\* hasPerfectSolution, lines 247-253
hasPerfectSolution(pop, testCs) ==
  LET best == getBestIndividual(pop)
  IN IF best = <<>> THEN FALSE
     ELSE best[1].trainAccuracy = 100 * Unit
            /\ (Len(testCs) = 0 \/ best[1].testAccuracy = 100 * Unit)

----------------------------------------------------------------------------
(* The values the callers pass *)

\* { input: '\x03', expected: '\x03' }
CaseEcho == [input |-> <<3>>, expected |-> <<3>>]

\* { input: '\x01', expected: '\x01' }
CaseOne == [input |-> <<1>>, expected |-> <<1>>]

\* { input: '\x05', expected: '\x00' }
CaseZero == [input |-> <<5>>, expected |-> <<0>>]

\* { input: '', expected: '' }
CaseNone == [input |-> <<>>, expected |-> <<>>]

\* a case whose input is no string
CaseBad == [input |-> Undefined, expected |-> <<0>>]

\* the training cases of the runs that vary the settings
TrainGraded == <<CaseEcho, CaseZero, CaseNone>>

TrainChoices == {<<CaseEcho, CaseOne>>, <<CaseBad, CaseOne>>}

TestChoices == {<<>>, <<CaseOne>>}

\* a genome of MaxSeedLen commands, long enough for the largest length
\* penalty: it echoes one character and ends the run at a '[' without partner
\* that reads 0, the input used up
LongGenome == <<",", ".", ",", "[">> \o [i \in 1 .. MaxSeedLen - 4 |-> "+"]

\* genome lists: a genome the generator can draw too, twice, and two more; and
\* the long genome
SeedChoices ==
  {<<<<",", ".">>, <<",", ".">>, <<"+", ".">>, <<"-", ".">>>>, <<LongGenome>>}

\* GASettings: the rates in percent.  mutationRate is 0 throughout, so that
\* mutateProgram only cuts a child to maxProgramLength.
SettingsChoices ==
  {[populationSize |-> n, mutationRate |-> 0, crossoverRate |-> 80,
    elitism |-> e, maxProgramLength |-> l] :
     n \in 1 .. MaxPop, e \in 0 .. MaxPop, l \in 1 .. MaxProgLen}

\* caller's precondition: populationSize >= 1 and 0 <= elitism <= populationSize
ValidSettings(s) == s.populationSize >= 1 /\ 0 <= s.elitism /\ s.elitism <= s.populationSize

----------------------------------------------------------------------------
(* genetic-algorithm.ts: GeneticAlgorithm *)

\* call.op is the method that ended last, call.threw whether it ended by an
\* exception, call.initialized whether initialize() has returned yet, and
\* call.prev the population evolve() started from, kept until the next call
NoCall == [op |-> "new", threw |-> FALSE, initialized |-> FALSE, prev |-> <<>>]

\* no App component is mounted: the algorithm is called directly
NoApp == [running |-> "unmounted"]

\* Variant of the while conditions that stops one individual early.
ShortByOne(pop, size) == Len(pop) < size - 1

\* the while conditions of lines 36, 79 and 112: pop.length < populationSize
Short(pop, size) == Len(pop) < size

\* Variant that carries nobody forward.
NoElite(pop, elitism) == <<>>

\* Variant that carries the last-ranked individuals forward.
LastRanked(pop, elitism) == Slice(pop, Max(Len(pop) - elitism, 0), Len(pop))

\* line 71: this.population.slice(0, this.settings.elitism)
Elite(pop, elitism) == Slice(pop, 0, elitism)

BFIdle == [pc |-> "idle"]

\* the state the constructor leaves, lines 8-16
Init ==
  /\ settings \in {s \in SettingsChoices : ValidSettings(s)}
  /\ trainCases = TrainGraded
  /\ testCases = <<>>
  /\ population = <<>>
  /\ generation = 0
  /\ seedGenomes = <<>>
  /\ pc = "idle"
  /\ newPopulation = <<>>
  /\ uniqueCodes = {}
  /\ attempts = 0
  /\ call = NoCall
  /\ app = NoApp
  /\ bf = BFIdle

\* Variant of the for loop over the seed genomes without the break of line 26.
RECURSIVE SeedLoopUnlimited(_, _, _, _, _, _)
SeedLoopUnlimited(seeds, i, st, size, trainCs, testCs) ==
  IF i > Len(seeds) THEN st
  ELSE IF seeds[i] \notin st.uniqueCodes
    THEN SeedLoopUnlimited(seeds, i + 1,
                           [population |-> Append(st.population,
                                                  evaluateIndividual(seeds[i], trainCs, testCs)),
                            uniqueCodes |-> st.uniqueCodes \cup {seeds[i]},
                            seededCount |-> st.seededCount + 1],
                           size, trainCs, testCs)
    ELSE SeedLoopUnlimited(seeds, i + 1, st, size, trainCs, testCs)

\* lines 25-33: the for loop over the seed genomes from index i (1-based) on;
\* st is [population, uniqueCodes, seededCount]
RECURSIVE SeedLoop(_, _, _, _, _, _)
SeedLoop(seeds, i, st, size, trainCs, testCs) ==
  IF i > Len(seeds) \/ st.seededCount >= (size * 3) \div 10 THEN st
  ELSE IF seeds[i] \notin st.uniqueCodes
    THEN SeedLoop(seeds, i + 1,
                  [population |-> Append(st.population,
                                         evaluateIndividual(seeds[i], trainCs, testCs)),
                   uniqueCodes |-> st.uniqueCodes \cup {seeds[i]},
                   seededCount |-> st.seededCount + 1],
                  size, trainCs, testCs)
    ELSE SeedLoop(seeds, i + 1, st, size, trainCs, testCs)

\* lines 38-51: the programLength initialize() can draw; of each of the three
\* ranges the model draws the two ends
InitLengths(maxProgramLength) ==
  LET maxLength == Min(maxProgramLength, 100)
      \* Math.floor(Math.random() * (maxLength - 40)) + 41
      longEnds == IF maxLength > 40 THEN {41, maxLength} ELSE {maxLength + 1, 41}
  IN {5, 15} \cup {16, 40} \cup longEnds

\* Variant of line 113 without the + 5.
FillLengthsFromZero(maxProgramLength) == {0, Min(maxProgramLength, 50) - 1}

\* line 113: Math.floor(Math.random() * Math.min(maxProgramLength, 50)) + 5, its two ends
FillLengths(maxProgramLength) == {5, Min(maxProgramLength, 50) + 4}

\* initialize() returns, line 63
InitializeReturn(pop) ==
  /\ population' = sortPopulation(pop)
  /\ pc' = "idle"
  /\ uniqueCodes' = {}
  /\ call' = [op |-> "initialize", threw |-> FALSE, initialized |-> TRUE, prev |-> <<>>]

\* initialize(), lines 19-36, up to the first test of the while condition, of
\* an object whose seedGenomes are seeds
InitializeEnter(seeds) ==
  /\ pc = "idle"
  /\ LET seeded == SeedLoop(seeds, 1,
                            [population |-> <<>>, uniqueCodes |-> {}, seededCount |-> 0],
                            settings.populationSize, trainCases, testCases)
     IN IF Short(seeded.population, settings.populationSize)
          THEN /\ population' = seeded.population
               /\ uniqueCodes' = seeded.uniqueCodes
               /\ pc' = "initialize"
               /\ call' = [call EXCEPT !.prev = <<>>]
          ELSE InitializeReturn(seeded.population)
  /\ generation' = 0
  /\ UNCHANGED <<settings, trainCases, testCases, newPopulation, attempts, bf>>

\* a call of initialize()
Initialize ==
  /\ InitializeEnter(seedGenomes)
  /\ UNCHANGED <<seedGenomes, app>>

\* the programs one iteration of the while loop of lines 36-61 can generate
InitializeCodes ==
  UNION {generateRandomProgram(programLength, settings.maxProgramLength) :
           programLength \in InitLengths(settings.maxProgramLength)}

\* one iteration of the while loop of lines 36-61, and the return when it was the last
InitializeFill ==
  /\ pc = "initialize"
  /\ \E code \in InitializeCodes :
       LET pop == IF code \notin uniqueCodes
                    THEN Append(population, evaluateIndividual(code, trainCases, testCases))
                    ELSE population
       IN IF Short(pop, settings.populationSize)
            THEN /\ population' = pop
                 /\ uniqueCodes' = uniqueCodes \cup {code}
                 /\ UNCHANGED <<pc, call>>
            ELSE InitializeReturn(pop)
  /\ UNCHANGED <<settings, trainCases, testCases, generation, seedGenomes,
                 newPopulation, attempts, bf, app>>

\* evolve() with the locals (np, uc, att): the next loop test, or lines 122-126
EvolveGoOn(np, uc, att) ==
  IF Short(np, settings.populationSize) /\ att < settings.populationSize * 10
    THEN /\ pc' = "offspring"
         /\ newPopulation' = np
         /\ uniqueCodes' = uc
         /\ attempts' = att
         /\ UNCHANGED <<population, generation, call>>
  ELSE IF Short(np, settings.populationSize)
    THEN /\ pc' = "fill"
         /\ newPopulation' = np
         /\ uniqueCodes' = uc
         /\ attempts' = att
         /\ UNCHANGED <<population, generation, call>>
  ELSE /\ population' = sortPopulation(Slice(np, 0, settings.populationSize))
       /\ generation' = generation + 1
       /\ pc' = "idle"
       /\ newPopulation' = <<>>
       /\ uniqueCodes' = {}
       /\ attempts' = 0
       /\ call' = [call EXCEPT !.op = "evolve", !.threw = FALSE, !.prev = population]

\* evolve(), lines 67-79, up to the first test of the while condition
EvolveEnter ==
  /\ pc = "idle"
  /\ LET elite == Elite(population, settings.elitism)
     IN EvolveGoOn(elite, {elite[i].code : i \in DOMAIN elite}, 0)
  /\ UNCHANGED <<settings, trainCases, testCases, seedGenomes, bf>>

\* a call of evolve(), of the MaxGen the model follows
Evolve ==
  /\ generation < MaxGen
  /\ EvolveEnter
  /\ UNCHANGED app

\* lines 86-91: the pairs of codes crossover leaves of two parents' codes
Crossed(code1, code2) ==
  (IF CanMiss(settings.crossoverRate) THEN {<<code1, code2>>} ELSE {})
    \cup (IF CanHit(settings.crossoverRate) THEN crossoverPrograms(code1, code2) ELSE {})

\* lines 80-95: the pairs of child codes one iteration can make
Offspring ==
  LET selected == {parent.code : parent \in tournamentSelection(population)}
      crossed == UNION {Crossed(code1, code2) : code1 \in selected, code2 \in selected}
  IN UNION {mutateProgram(pair[1], settings.mutationRate, settings.maxProgramLength)
              \X mutateProgram(pair[2], settings.mutationRate, settings.maxProgramLength) :
            pair \in crossed}

\* Variant of lines 97-108 without the uniqueCodes.has tests.
AddedUnchecked(child) ==
  <<child[1]>> \o (IF Len(newPopulation) + 1 < settings.populationSize
                    THEN <<child[2]>> ELSE <<>>)

\* lines 97-108: the codes the iteration adds for a pair of child codes, in order
Added(child) ==
  LET first == IF child[1] \notin uniqueCodes THEN <<child[1]>> ELSE <<>>
      second == IF /\ Len(newPopulation) + Len(first) < settings.populationSize
                   /\ child[2] \notin uniqueCodes \cup Range(first)
                  THEN <<child[2]>> ELSE <<>>
  IN first \o second

\* The while loop of lines 79-109.  On an empty population tournamentSelection
\* reads candidate.fitness of undefined: a TypeError leaves evolve().
\* Otherwise one iteration: an iteration that adds a child counts one attempt.
\* An iteration that adds none changes nothing but attempts, so it can be
\* repeated; every adding iteration lengthens newPopulation, so fewer than
\* populationSize of them fit in the loop and attempts reaches maxAttempts
\* (line 77) only through iterations that add none.  Those are taken together,
\* as the run that uses up the attempts.
EvolveOffspring ==
  /\ pc = "offspring"
  /\ IF population = <<>>
       THEN /\ pc' = "idle"
            /\ newPopulation' = <<>>
            /\ uniqueCodes' = {}
            /\ attempts' = 0
            /\ call' = [call EXCEPT !.op = "evolve", !.threw = TRUE, !.prev = population]
            /\ UNCHANGED <<population, generation>>
       ELSE \E added \in {Added(child) : child \in Offspring} :
              IF added # <<>>
                THEN EvolveGoOn(newPopulation
                                  \o [i \in 1 .. Len(added) |->
                                        evaluateIndividual(added[i], trainCases, testCases)],
                                uniqueCodes \cup Range(added), attempts + 1)
                ELSE EvolveGoOn(newPopulation, uniqueCodes, settings.populationSize * 10)
  /\ UNCHANGED <<settings, trainCases, testCases, seedGenomes, bf, app>>

\* the programs one iteration of the while loop of lines 112-120 can generate
EvolveFillCodes ==
  UNION {generateRandomProgram(programLength, settings.maxProgramLength) :
           programLength \in FillLengths(settings.maxProgramLength)}

\* one iteration of the while loop of lines 112-120
EvolveFill ==
  /\ pc = "fill"
  /\ \E code \in EvolveFillCodes :
       IF code \notin uniqueCodes
         THEN EvolveGoOn(Append(newPopulation,
                                evaluateIndividual(code, trainCases, testCases)),
                         uniqueCodes \cup {code}, attempts)
         ELSE EvolveGoOn(newPopulation, uniqueCodes, attempts)
  /\ UNCHANGED <<settings, trainCases, testCases, seedGenomes, bf, app>>

\* updateSettings, lines 234-236, under the caller's precondition
UpdateSettings ==
  /\ pc = "idle"
  /\ \E s \in SettingsChoices : ValidSettings(s) /\ settings' = s
  /\ call' = [call EXCEPT !.prev = <<>>]
  /\ UNCHANGED <<trainCases, testCases, population, generation, seedGenomes,
                 pc, newPopulation, uniqueCodes, attempts, bf, app>>

\* Variant of updateTrainCases that scores the population again.
UpdateTrainCasesRescoring ==
  /\ pc = "idle"
  /\ \E cases \in TrainChoices :
       /\ trainCases' = cases
       /\ population' = [i \in DOMAIN population |->
                           evaluateIndividual(population[i].code, cases, testCases)]
  /\ call' = [call EXCEPT !.prev = <<>>]
  /\ UNCHANGED <<settings, testCases, generation, seedGenomes,
                 pc, newPopulation, uniqueCodes, attempts, bf, app>>

\* updateTrainCases, lines 238-240
UpdateTrainCases ==
  /\ pc = "idle"
  /\ \E cases \in TrainChoices : trainCases' = cases
  /\ call' = [call EXCEPT !.prev = <<>>]
  /\ UNCHANGED <<settings, testCases, population, generation, seedGenomes,
                 pc, newPopulation, uniqueCodes, attempts, bf, app>>

\* updateTestCases, lines 242-244
UpdateTestCases ==
  /\ pc = "idle"
  /\ \E cases \in TestChoices : testCases' = cases
  /\ call' = [call EXCEPT !.prev = <<>>]
  /\ UNCHANGED <<settings, trainCases, population, generation, seedGenomes,
                 pc, newPopulation, uniqueCodes, attempts, bf, app>>

\* Variant of setSeedGenomes that starts the population over.
SetSeedGenomesAndReset ==
  /\ pc = "idle"
  /\ \E genomes \in SeedChoices : seedGenomes' = genomes
  /\ population' = <<>>
  /\ generation' = 0
  /\ call' = [call EXCEPT !.prev = <<>>]
  /\ UNCHANGED <<settings, trainCases, testCases,
                 pc, newPopulation, uniqueCodes, attempts, bf, app>>

\* getSeedGenomes, lines 261-263: a copy of the list
getSeedGenomes(seeds) == seeds

\* setSeedGenomes, lines 256-258
SetSeedGenomes ==
  /\ pc = "idle"
  /\ \E genomes \in SeedChoices : seedGenomes' = genomes
  /\ call' = [call EXCEPT !.prev = <<>>]
  /\ UNCHANGED <<settings, trainCases, testCases, population, generation,
                 pc, newPopulation, uniqueCodes, attempts, bf, app>>

\* clearSeedGenomes, lines 266-268
ClearSeedGenomes ==
  /\ pc = "idle"
  /\ seedGenomes' = <<>>
  /\ call' = [call EXCEPT !.prev = <<>>]
  /\ UNCHANGED <<settings, trainCases, testCases, population, generation,
                 pc, newPopulation, uniqueCodes, attempts, bf, app>>

\* the algorithm under changing settings
Next ==
  \/ Initialize
  \/ InitializeFill
  \/ Evolve
  \/ EvolveOffspring
  \/ EvolveFill
  \/ UpdateSettings

Spec == Init /\ [][Next]_vars

\* the algorithm under the settings it was constructed with, no seed genomes set
NextSteady ==
  \/ Initialize
  \/ InitializeFill
  \/ Evolve
  \/ EvolveOffspring
  \/ EvolveFill

SpecSteady == Init /\ [][NextSteady]_vars

\* the algorithm under changing cases and seed genomes, the settings fixed:
\* a population large enough to take a seed genome, parents copied unchanged
DataSettings ==
  [populationSize |-> MaxPop + 1, mutationRate |-> 0, crossoverRate |-> 0,
   elitism |-> 2, maxProgramLength |-> MaxProgLen]

InitData ==
  /\ settings = DataSettings
  /\ trainCases \in TrainChoices
  /\ testCases \in TestChoices
  /\ population = <<>>
  /\ generation = 0
  /\ seedGenomes = <<>>
  /\ pc = "idle"
  /\ newPopulation = <<>>
  /\ uniqueCodes = {}
  /\ attempts = 0
  /\ call = NoCall
  /\ app = NoApp
  /\ bf = BFIdle

NextData ==
  \/ Initialize
  \/ InitializeFill
  \/ Evolve
  \/ EvolveOffspring
  \/ EvolveFill
  \/ UpdateTrainCases
  \/ UpdateTestCases
  \/ SetSeedGenomes
  \/ ClearSeedGenomes

SpecData == InitData /\ [][NextData]_vars

\* initialize() under changing seed genomes: the smallest population that takes
\* two of them (floor(0.3 x 7) = 2), and programs of 3 symbols, of which the
\* generator has enough for the other slots
SeedSettings ==
  [populationSize |-> 7, mutationRate |-> 0, crossoverRate |-> 0,
   elitism |-> 2, maxProgramLength |-> 3]

InitSeed ==
  /\ settings = SeedSettings
  /\ trainCases = <<CaseEcho, CaseOne>>
  /\ testCases = <<>>
  /\ population = <<>>
  /\ generation = 0
  /\ seedGenomes \in SeedChoices
  /\ pc = "idle"
  /\ newPopulation = <<>>
  /\ uniqueCodes = {}
  /\ attempts = 0
  /\ call = NoCall
  /\ app = NoApp
  /\ bf = BFIdle

NextSeed ==
  \/ Initialize
  \/ InitializeFill
  \/ SetSeedGenomes

SpecSeed == InitSeed /\ [][NextSeed]_vars

\* the algorithm as the effect of App.tsx (lines 255-261) drives it: settings,
\* training cases and test cases replaced between the calls
InitUpdate ==
  /\ settings = [populationSize |-> MaxPop, mutationRate |-> 0, crossoverRate |-> 80,
                 elitism |-> 1, maxProgramLength |-> MaxProgLen]
  /\ trainCases = <<CaseEcho, CaseOne>>
  /\ testCases = <<>>
  /\ population = <<>>
  /\ generation = 0
  /\ seedGenomes = <<>>
  /\ pc = "idle"
  /\ newPopulation = <<>>
  /\ uniqueCodes = {}
  /\ attempts = 0
  /\ call = NoCall
  /\ app = NoApp
  /\ bf = BFIdle

NextUpdate ==
  \/ Initialize
  \/ InitializeFill
  \/ Evolve
  \/ EvolveOffspring
  \/ EvolveFill
  \/ UpdateSettings
  \/ UpdateTrainCases
  \/ UpdateTestCases

SpecUpdate == InitUpdate /\ [][NextUpdate]_vars

\* ",[.,]": it puts out every byte of its input, nothing for the empty input
CatGenome == <<",", "[", ".", ",", "]">>

\* the algorithm started from a genome longer than the programs it generates,
\* the training case passed by every program that puts out nothing
InitRank ==
  /\ settings = DataSettings
  /\ trainCases = <<CaseNone>>
  /\ testCases = <<CaseOne>>
  /\ population = <<>>
  /\ generation = 0
  /\ seedGenomes = <<CatGenome>>
  /\ pc = "idle"
  /\ newPopulation = <<>>
  /\ uniqueCodes = {}
  /\ attempts = 0
  /\ call = NoCall
  /\ app = NoApp
  /\ bf = BFIdle

NextRank ==
  \/ Initialize
  \/ InitializeFill
  \/ Evolve
  \/ EvolveOffspring
  \/ EvolveFill

SpecRank == InitRank /\ [][NextRank]_vars

----------------------------------------------------------------------------
(* App.tsx: the component that drives the algorithm.  app holds the React  *)
(* state the handlers read (ga, isRunning, isPaused, bestSolution,         *)
(* evolutionInterval, lastSavedBest, seedGenomes), the timers the browser  *)
(* holds (timers, numbered by intervals in the order of the setInterval    *)
(* calls), the lastSavedBest the callback of each timer has closed over    *)
(* (closed), and the handler that is running.  A handler is taken with the *)
(* commit that follows it; a callback that calls initialize() or evolve()  *)
(* takes the steps of that call.  Every timer calls evolve() of the one    *)
(* GeneticAlgorithm object the variables of the algorithm describe.  The   *)
(* data sets and the settings are not edited, and what is only displayed   *)
(* (population, stats, currentGeneration) is left out.  History: halted    *)
(* (pause, stop or reset ran and startEvolution has not run since),        *)
(* cancelled (the timers their own callback has cleared), overlapped (the  *)
(* timers that were active when startEvolution set the next one) and log   *)
(* (what was passed to saveGenomeToLibrary since the algorithm was set up  *)
(* or the genomes were loaded).                                            *)

\* the settings of the App: a population of two, one of them carried forward
AppSettings ==
  [populationSize |-> 2, mutationRate |-> 0, crossoverRate |-> 80,
   elitism |-> 1, maxProgramLength |-> MaxProgLen]

\* settings.maxGenerations, reached before the model stops following evolve()
AppMaxGenerations == MaxTicks - 1

\* what handleLoadGenomes is passed
AppGenomes == {<<>>, <<<<",", ".">>>>}

\* the fields of an Individual the App reads
Summary(ind) == [code |-> ind.code, trainAccuracy |-> ind.trainAccuracy]

\* the state of the first render, lines 36-51
AppStart ==
  [running |-> "none", ga |-> FALSE, isRunning |-> FALSE, isPaused |-> FALSE,
   bestSolution |-> <<>>, evolutionInterval |-> 0, lastSavedBest |-> <<>>,
   seedGenomes |-> <<>>, timers |-> {}, intervals |-> 0, closed |-> <<>>,
   tick |-> 0, halted |-> FALSE, cancelled |-> {}, overlapped |-> {}, log |-> <<>>]

InitApp ==
  /\ settings = AppSettings
  /\ trainCases = <<CaseEcho, CaseOne>>
  /\ testCases = <<>>
  /\ population = <<>>
  /\ generation = 0
  /\ seedGenomes = <<>>
  /\ pc = "idle"
  /\ newPopulation = <<>>
  /\ uniqueCodes = {}
  /\ attempts = 0
  /\ call = NoCall
  /\ app = AppStart
  /\ bf = BFIdle

\* Variant of the component without the effect of lines 264-270.
CleanupNone(timers, before, after) == timers

\* lines 264-270: when a commit has changed evolutionInterval, the cleanup of
\* the effect clears the timer evolutionInterval held before
Cleanup(timers, before, after) == IF before # after THEN timers \ {before} ELSE timers

\* the buttons that call startEvolution: Start or Resume, shown while not
\* running, and Continue Evolving, shown while bestSolution is set
CanStart == ~app.isRunning \/ app.bestSolution # <<>>

\* startEvolution without ga, lines 104-107, and initializeGA, lines 67-77,
\* up to the first test of the while condition of initialize()
StartNew ==
  /\ app.running = "none"
  /\ CanStart
  /\ ~app.ga
  /\ app.timers = {}
  /\ InitializeEnter(app.seedGenomes)
  /\ seedGenomes' = app.seedGenomes
  /\ app' = [app EXCEPT !.running = "initializeGA", !.halted = FALSE]

\* initializeGA after initialize() has returned, lines 78-101
InitializeGAReturn ==
  /\ app.running = "initializeGA"
  /\ pc = "idle"
  /\ app' = [app EXCEPT !.running = "none",
                        !.ga = TRUE,
                        !.bestSolution = IF hasPerfectSolution(population, testCases)
                                           THEN <<Summary(population[1])>>
                                           ELSE <<>>,
                        !.log = <<>>]
  /\ UNCHANGED <<gaVars, bf>>

\* startEvolution with ga, lines 109-164: the timer is set, its callback
\* closes over the lastSavedBest of this render
StartTimer ==
  /\ app.running = "none"
  /\ CanStart
  /\ app.ga
  /\ app.intervals < MaxTimers
  /\ LET interval == app.intervals + 1
     IN app' = [app EXCEPT !.isRunning = TRUE,
                           !.isPaused = FALSE,
                           !.intervals = interval,
                           !.closed = Append(@, app.lastSavedBest),
                           !.evolutionInterval = interval,
                           !.timers = Cleanup(@ \cup {interval},
                                              app.evolutionInterval, interval),
                           !.overlapped = @ \cup app.timers,
                           !.halted = FALSE]
  /\ UNCHANGED <<gaVars, bf>>

\* the callback of timer t, lines 111-114, up to the first test of the while
\* condition of evolve()
Tick(t) ==
  /\ app.running = "none"
  /\ t \in app.timers
  /\ generation < MaxTicks
  /\ EvolveEnter
  /\ app' = [app EXCEPT !.running = "tick", !.tick = t]

TimerTick == \E t \in 1 .. MaxTimers : Tick(t)

\* line 140: best && (!lastSavedBest || best.trainAccuracy > lastSavedBest.trainAccuracy + 10)
Saves(best, lastSavedBest) ==
  /\ best # <<>>
  /\ \/ lastSavedBest = <<>>
     \/ best[1].trainAccuracy > lastSavedBest[1].trainAccuracy + 10 * Unit

\* Variant of line 146 that stops for a perfect solution only.
StopsWhenPerfect(maxGenerations) == hasPerfectSolution(population, testCases)

\* line 146: ga.hasPerfectSolution() || generation >= settings.maxGenerations
Stops(maxGenerations) ==
  hasPerfectSolution(population, testCases) \/ generation >= maxGenerations

\* the callback after evolve() has returned, lines 115-161
TickReturn ==
  /\ app.running = "tick"
  /\ pc = "idle"
  /\ LET best == getBestIndividual(population)
         saves == Saves(best, app.closed[app.tick])
         stops == Stops(AppMaxGenerations)
     IN app' = [app EXCEPT
                  !.running = "none",
                  !.tick = 0,
                  !.bestSolution = IF hasPerfectSolution(population, testCases)
                                     THEN <<Summary(best[1])>> ELSE @,
                  !.lastSavedBest = IF saves THEN <<Summary(best[1])>> ELSE @,
                  !.log = IF saves THEN Append(@, Summary(best[1])) ELSE @,
                  !.timers = IF stops THEN @ \ {app.tick} ELSE @,
                  !.cancelled = IF stops THEN @ \cup {app.tick} ELSE @,
                  !.isRunning = IF stops THEN FALSE ELSE @]
  /\ UNCHANGED <<gaVars, bf>>

\* lines 168-171, 176-179 and 184-187: clearInterval(evolutionInterval) and
\* setEvolutionInterval(null), if evolutionInterval is set
Cleared(a) ==
  IF a.evolutionInterval # 0
    THEN [a EXCEPT !.timers = Cleanup(@ \ {a.evolutionInterval}, a.evolutionInterval, 0),
                   !.evolutionInterval = 0]
    ELSE a

\* pauseEvolution, lines 167-173; the button is shown while running
Pause ==
  /\ app.running = "none"
  /\ app.isRunning
  /\ app' = [Cleared(app) EXCEPT !.isRunning = FALSE, !.isPaused = TRUE, !.halted = TRUE]
  /\ UNCHANGED <<gaVars, bf>>

\* stopEvolution, lines 175-181; the button is disabled unless running or paused
Stop ==
  /\ app.running = "none"
  /\ app.isRunning \/ app.isPaused
  /\ app' = [Cleared(app) EXCEPT !.isRunning = FALSE, !.isPaused = FALSE, !.halted = TRUE]
  /\ UNCHANGED <<gaVars, bf>>

\* resetEvolution, lines 183-197
Reset ==
  /\ app.running = "none"
  /\ app' = [Cleared(app) EXCEPT !.isRunning = FALSE, !.isPaused = FALSE,
                                 !.bestSolution = <<>>, !.ga = FALSE,
                                 !.halted = TRUE, !.log = <<>>]
  /\ UNCHANGED <<gaVars, bf>>

\* handleLoadGenomes, lines 235-239
LoadGenomes ==
  /\ app.running = "none"
  /\ \E genomes \in AppGenomes :
       app' = [app EXCEPT !.seedGenomes = genomes, !.lastSavedBest = <<>>, !.log = <<>>]
  /\ UNCHANGED <<gaVars, bf>>

NextApp ==
  \/ StartNew
  \/ InitializeFill
  \/ InitializeGAReturn
  \/ StartTimer
  \/ TimerTick
  \/ EvolveOffspring
  \/ EvolveFill
  \/ TickReturn
  \/ Pause
  \/ Stop
  \/ Reset
  \/ LoadGenomes

SpecApp == InitApp /\ [][NextApp]_vars

----------------------------------------------------------------------------
(* One call of executeBrainfuck, step by step *)

\* programs of brackets alone, long enough for loops inside and beside loops
BracketCodes ==
  UNION {[1 .. n -> {"[", "]"}] : n \in MaxCodeLen + 1 .. MaxCodeLen + 2}

\* programs of up to MaxCodeLen commands, two loops, and the programs of
\* brackets
BFCodes ==
  UNION {[1 .. n -> Range(commands)] : n \in 0 .. MaxCodeLen}
    \cup {<<"+", "[", "+", "]">>, <<"+", "[", ".", "]">>}
    \cup BracketCodes

BFInputs == {<<>>, <<1>>, <<255>>}

\* programs run under the default of maxSteps: they clear the cell they have
\* set, by counting it down
ClearCodes ==
  {<<"+", "[", "-", "]">>, <<"+", "[", "-", "]", ".">>, <<",", "[", "-", "]", ".">>}

\* the call executeBrainfuck(code, input, maxSteps) after lines 5-12; executed
\* counts the iterations of the loop, emitted collects what they output, reads
\* counts the iterations that ran ',', and returned lists the calls that have
\* ended before this one
BFStart(code, input, maxSteps) ==
  [pc |-> "loop", code |-> code, input |-> input, maxSteps |-> maxSteps,
   locals |-> StartLocals(code), result |-> <<>>, executed |-> 0, emitted |-> <<>>,
   reads |-> 0, returned |-> <<>>]

InitBF ==
  /\ settings = DataSettings
  /\ trainCases = TrainGraded
  /\ testCases = <<>>
  /\ population = <<>>
  /\ generation = 0
  /\ seedGenomes = <<>>
  /\ pc = "idle"
  /\ newPopulation = <<>>
  /\ uniqueCodes = {}
  /\ attempts = 0
  /\ call = NoCall
  /\ app = NoApp
  /\ bf \in {BFStart(code, input, maxSteps) :
               code \in BFCodes, input \in BFInputs, maxSteps \in 0 .. MaxSteps}
            \cup {BFStart(code, input, DefaultMaxSteps) :
                    code \in ClearCodes, input \in BFInputs}

\* one iteration of the while loop, lines 14-55
BFIterate ==
  /\ bf.pc = "loop"
  /\ Running(bf.code, bf.maxSteps, bf.locals)
  /\ LET c == bf.locals
         command == bf.code[c.codePointer + 1]
     IN bf' = [bf EXCEPT !.locals = ExecStep(bf.code, bf.input, c),
                         !.executed = @ + 1,
                         !.emitted = IF command = "."
                                       THEN Append(@, Cell(c.memory, c.pointer))
                                       ELSE @,
                         !.reads = IF command = "," THEN @ + 1 ELSE @]
  /\ UNCHANGED <<gaVars, app>>

\* the while condition fails: return output, line 57
BFReturn ==
  /\ bf.pc = "loop"
  /\ ~Running(bf.code, bf.maxSteps, bf.locals)
  /\ bf' = [bf EXCEPT !.pc = "done", !.result = bf.locals.output]
  /\ UNCHANGED <<gaVars, app>>

NextBF ==
  \/ BFIterate
  \/ BFReturn

SpecBF == InitBF /\ [][NextBF]_vars

----------------------------------------------------------------------------
(* One call of generateRandomProgram, of mutateProgram or of               *)
(* crossoverPrograms                                                       *)

\* the programs passed: up to MaxCodeLen symbols, the empty program included
FnPrograms == UNION {[1 .. n -> {"+", ","}] : n \in 0 .. MaxCodeLen}

\* mutationRate 0, 0.5 and 1, in percent
FnRates == {0, 50, 100}

\* maxLength: shorter than, as long as and longer than the programs
FnMaxLengths == 0 .. MaxCodeLen + 1

\* length: the programs asked of generateRandomProgram, long enough for a loop
\* inside a loop
FnLengths == 0 .. MaxCodeLen + 1

InitFn ==
  /\ settings = DataSettings
  /\ trainCases = TrainGraded
  /\ testCases = <<>>
  /\ population = <<>>
  /\ generation = 0
  /\ seedGenomes = <<>>
  /\ pc = "idle"
  /\ newPopulation = <<>>
  /\ uniqueCodes = {}
  /\ attempts = 0
  /\ call = NoCall
  /\ app = NoApp
  /\ bf \in {[pc |-> "mutate", program |-> program, mutationRate |-> mutationRate,
               maxLength |-> maxLength] :
               program \in FnPrograms, mutationRate \in FnRates,
               maxLength \in FnMaxLengths}
            \cup {[pc |-> "crossover", parent1 |-> parent1, parent2 |-> parent2] :
                    parent1 \in FnPrograms, parent2 \in FnPrograms}
            \cup {[pc |-> "generate", length |-> length, maxLength |-> maxLength] :
                    length \in FnLengths, maxLength \in FnMaxLengths}

\* generateRandomProgram(length, maxLength), lines 82-118
FnGenerate ==
  /\ bf.pc = "generate"
  /\ \E program \in generateRandomProgram(bf.length, bf.maxLength) :
       bf' = [pc |-> "generated", length |-> bf.length, maxLength |-> bf.maxLength,
              result |-> program]
  /\ UNCHANGED <<gaVars, app>>

\* mutateProgram(program, mutationRate, maxLength), lines 123-186; mutated keeps
\* what the local held before lines 181-185
FnMutate ==
  /\ bf.pc = "mutate"
  /\ \E mutated \in MutateShrunk(bf.program, bf.mutationRate, bf.maxLength) :
       bf' = [pc |-> "mutated", program |-> bf.program,
              mutationRate |-> bf.mutationRate, maxLength |-> bf.maxLength,
              mutated |-> mutated, result |-> MutateFinish(mutated, bf.maxLength)]
  /\ UNCHANGED <<gaVars, app>>

\* crossoverPrograms(parent1, parent2), lines 191-256
FnCrossover ==
  /\ bf.pc = "crossover"
  /\ \E children \in crossoverPrograms(bf.parent1, bf.parent2) :
       bf' = [pc |-> "crossed", parent1 |-> bf.parent1, parent2 |-> bf.parent2,
              result |-> children]
  /\ UNCHANGED <<gaVars, app>>

NextFn ==
  \/ FnMutate
  \/ FnCrossover
  \/ FnGenerate

SpecFn == InitFn /\ [][NextFn]_vars

----------------------------------------------------------------------------
(* Calls of executeBrainfuck one after the other *)

\* the arguments of the calls: programs that write the tape, move the pointer,
\* read input and loop
CallCodes ==
  {<<".">>, <<"+", ".">>, <<">", "+", ".">>, <<",", ".">>, <<"+", "[", ".", "]">>}

CallArgs ==
  {[code |-> code, input |-> input, maxSteps |-> maxSteps] :
     code \in CallCodes, input \in {<<>>, <<1>>}, maxSteps \in {1, MaxSteps}}

InitCalls ==
  /\ settings = DataSettings
  /\ trainCases = TrainGraded
  /\ testCases = <<>>
  /\ population = <<>>
  /\ generation = 0
  /\ seedGenomes = <<>>
  /\ pc = "idle"
  /\ newPopulation = <<>>
  /\ uniqueCodes = {}
  /\ attempts = 0
  /\ call = NoCall
  /\ app = NoApp
  /\ bf \in {BFStart(a.code, a.input, a.maxSteps) : a \in CallArgs}

\* the call has returned and the caller calls executeBrainfuck again, lines 5-12
BFCall ==
  /\ bf.pc = "done"
  /\ Len(bf.returned) + 1 < MaxCalls
  /\ \E a \in CallArgs :
       bf' = [BFStart(a.code, a.input, a.maxSteps) EXCEPT
                !.locals.memory = NewMemory(bf.locals.memory),
                !.returned = Append(bf.returned,
                                    [code |-> bf.code, input |-> bf.input,
                                     maxSteps |-> bf.maxSteps, output |-> bf.result])]
  /\ UNCHANGED <<gaVars, app>>

NextCalls ==
  \/ BFIterate
  \/ BFReturn
  \/ BFCall

SpecCalls == InitCalls /\ [][NextCalls]_vars

----------------------------------------------------------------------------
(* Properties *)

\* initialize() returns: the last iteration of its loop
InitializeReturns == pc = "initialize" /\ pc' = "idle"

\* evolve() returns: line 124 is the only increment of generation
EvolveReturns == generation' = generation + 1

\* the state a returned evolve() leaves, before any other call
Evolved == pc = "idle" /\ call.op = "evolve" /\ ~call.threw /\ call.prev # <<>>

Codes(pop) == {pop[i].code : i \in DOMAIN pop}

\* C1: when initialize() returns and when evolve() returns, the population
\* holds exactly settings.populationSize individuals, the settings being those
\* in force during the call.
PopulationSized ==
  [][InitializeReturns \/ EvolveReturns
       => Len(population') = settings.populationSize]_vars

\* evolve() has turned a population of MaxPop - 1 into one of MaxPop, the
\* populationSize having been raised in between
PopulationSizedReached ==
  /\ Evolved
  /\ Len(call.prev) = MaxPop - 1
  /\ Len(population) = MaxPop
  /\ settings.populationSize = MaxPop

\* C2: between the calls, after initialize() and after every evolve(), the
\* population is ordered by fitness descending, and getBestIndividual()
\* returns an individual of maximal fitness.
Ranked ==
  pc = "idle" =>
    /\ \A i, j \in DOMAIN population :
         i < j => population[i].fitness >= population[j].fitness
    /\ \A b \in Range(getBestIndividual(population)) :
         \A i \in DOMAIN population : b.fitness >= population[i].fitness

\* evolve() has returned MaxPop individuals of different fitness, a new
\* program ranked before one it carried over
RankedReached ==
  /\ Evolved
  /\ Len(population) = MaxPop
  /\ population[1].fitness > population[MaxPop].fitness
  /\ population[1].code \notin Codes(call.prev)
  /\ population[MaxPop].code \in Codes(call.prev)

\* C3: for 0 < elitism <= populationSize, the programs of the elitism
\* top-ranked individuals of the population evolve() starts from are all in the
\* population it returns, each with the fitness it had.
ElitesCarried ==
  [][EvolveReturns /\ 0 < settings.elitism /\ settings.elitism <= settings.populationSize
       => \A i \in 1 .. Min(settings.elitism, Len(population)) :
            \E j \in DOMAIN population' :
              /\ population'[j].code = population[i].code
              /\ population'[j].fitness = population[i].fitness]_vars

\* evolve() has carried the best individual over with a fitness that the
\* training cases now in force would not give it
ElitesCarriedReached ==
  /\ Evolved
  /\ settings.elitism > 0
  /\ \E j \in DOMAIN population :
       /\ population[j].code = call.prev[1].code
       /\ population[j].fitness = call.prev[1].fitness
       /\ evaluateIndividual(population[j].code, trainCases, testCases).fitness
            # population[j].fitness

\* C4: with elitism >= 1, the fitness of the first individual after an
\* evolve() on an initialized population is at least what it was before.
BestNeverWorse ==
  [][EvolveReturns /\ settings.elitism >= 1 /\ population # <<>>
       => population'[1].fitness >= population[1].fitness]_vars

\* evolve() has returned a strictly better first individual
BestNeverWorseReached ==
  /\ Evolved
  /\ settings.elitism >= 1
  /\ population[1].fitness > call.prev[1].fitness

\* C5: hasPerfectSolution() is true exactly when the first individual's
\* trainAccuracy is 100 and the test-case list is empty or its testAccuracy is
\* 100; on an empty population it is false.
PerfectExactly ==
  pc = "idle" =>
    hasPerfectSolution(population, testCases)
      = (/\ population # <<>>
         /\ population[1].trainAccuracy = 100 * Unit
         /\ (testCases = <<>> \/ population[1].testAccuracy = 100 * Unit))

\* a best individual that passes every training case and every test case of a
\* list that is not empty
PerfectExactlyReached ==
  /\ pc = "idle"
  /\ call.initialized
  /\ testCases # <<>>
  /\ hasPerfectSolution(population, testCases)

\* C6: every evolve() returns; read on a finite run: whenever the fill loop of
\* lines 112-120 is waiting for a program, the generator can draw one that
\* uniqueCodes does not hold.  When it cannot, no iteration adds an individual
\* and the loop never ends.
FillCanEnd ==
  pc = "fill" => \E code \in EvolveFillCodes : code \notin uniqueCodes

\* C7: initialize() returns for every valid setting; read on a finite run:
\* whenever the loop of lines 36-61 is waiting for a program, the generator can
\* draw one that uniqueCodes does not hold.  When it cannot, no iteration adds
\* an individual and the loop never ends.
InitializeCanEnd ==
  pc = "initialize" => \E code \in InitializeCodes : code \notin uniqueCodes

\* C8: between the calls, after initialize() and after every evolve(), no two
\* individuals of the population have the same program.
DistinctPrograms ==
  pc = "idle" =>
    \A i, j \in DOMAIN population : i # j => population[i].code # population[j].code

\* evolve() has returned a full population that holds a seed genome the
\* generator draws too, an individual carried over and a new program
DistinctProgramsReached ==
  /\ Evolved
  /\ Len(population) = settings.populationSize
  /\ seedGenomes # <<>>
  /\ seedGenomes[1] \in Codes(population)
  /\ seedGenomes[1] \in InitializeCodes
  /\ call.prev[1].code \in Codes(population)
  /\ Codes(population) \ Codes(call.prev) # {}

\* the program executes a ',': it holds one, with no ']' before it
Reads(code) ==
  \E k \in DOMAIN code :
    /\ code[k] = ","
    /\ \A j \in 1 .. k - 1 : code[j] # "]"

\* what evaluateIndividual records of the training cases: one output and one
\* result per case; for a case whose input is no string, '[ERROR]' and false
\* exactly if the program reads input (the programs of the model have no loop,
\* so a ',' of the program is executed unless a ']' without partner ends the
\* run before it), and otherwise the comparison of the output with the expected
\* string
Recorded(ind, cases) ==
  /\ Len(ind.outputs) = Len(cases)
  /\ Len(ind.trainResults) = Len(cases)
  /\ \A i \in DOMAIN cases :
       IF cases[i].input = Undefined /\ Reads(ind.code)
         THEN ind.outputs[i] = ErrorMarker /\ ~ind.trainResults[i]
         ELSE /\ ind.outputs[i] # ErrorMarker
              /\ ind.trainResults[i] = (ind.outputs[i] = cases[i].expected)

\* C9: once initialize() has returned, no call ends by an exception; and
\* every individual a step adds to population or newPopulation records a fault
\* in a training case as '[ERROR]' with the result false, and the cases after
\* it as they ran.
NeverThrows ==
  /\ [](call.initialized => ~call.threw)
  /\ [][\A ind \in (Range(population') \cup Range(newPopulation'))
                     \ (Range(population) \cup Range(newPopulation)) :
          Recorded(ind, trainCases)]_vars

\* evolve() has returned an individual whose first case faulted and whose
\* second case passed
NeverThrowsReached ==
  /\ Evolved
  /\ call.initialized
  /\ \E i \in DOMAIN population :
       /\ population[i].code \notin Codes(call.prev)
       /\ population[i].outputs = <<ErrorMarker, <<1>>>>
       /\ population[i].trainResults = <<FALSE, TRUE>>

\* C10: executeBrainfuck(code, input, maxSteps) with maxSteps >= 0 executes at
\* most maxSteps instructions; when it returns with codePointer still inside
\* the program, it has executed exactly maxSteps instructions, it returns what
\* those have output, and it has not thrown.
StepBudget ==
  /\ bf.pc \in {"loop", "done"} => bf.executed <= bf.maxSteps
  /\ (/\ bf.pc = "done"
      /\ bf.locals.codePointer # NaN
      /\ bf.locals.codePointer < Len(bf.code))
       => /\ bf.executed = bf.maxSteps
          /\ bf.result = bf.emitted
          /\ ~bf.locals.threw

\* "+[.]" has used up a budget of MaxSteps inside its loop, with output
StepBudgetReached ==
  /\ bf.pc = "done"
  /\ bf.code = <<"+", "[", ".", "]">>
  /\ bf.maxSteps = MaxSteps
  /\ bf.executed = MaxSteps
  /\ bf.result # <<>>
  /\ bf.locals.codePointer < Len(bf.code)

JumpsUnmatched ==
  /\ bf.pc = "loop"
  /\ Running(bf.code, bf.maxSteps, bf.locals)
  /\ bf.locals.codePointer \notin DOMAIN bf.locals.bracketMap
  /\ LET command == bf.code[bf.locals.codePointer + 1]
         cur == Cell(bf.locals.memory, bf.locals.pointer)
     IN \/ command = "[" /\ cur = 0
        \/ command = "]" /\ cur # 0

\* C12: the iteration that takes the jump of a bracket without entry in
\* bracketMap is the last one: it outputs nothing, the while condition fails
\* after it whatever is left of the program and of maxSteps, and the call
\* returns the output collected so far without another iteration.
HaltsAtUnmatched ==
  [][/\ JumpsUnmatched =>
          /\ bf'.pc = "loop"
          /\ ~Running(bf.code, bf.maxSteps, bf'.locals)
          /\ ~bf'.locals.threw
          /\ bf'.locals.output = bf.locals.output
     /\ (bf.pc = "loop" /\ ~Running(bf.code, bf.maxSteps, bf.locals)) =>
          /\ bf'.pc = "done"
          /\ bf'.executed = bf.executed
          /\ bf'.result = bf.emitted]_vars

\* ".[." has returned the one byte of its first '.', after two of its three
\* commands and with steps left: its '[' has no partner and read a cell of 0
HaltsAtUnmatchedReached ==
  /\ bf.pc = "done"
  /\ bf.code = <<".", "[", ".">>
  /\ bf.maxSteps = MaxSteps
  /\ bf.executed = 2
  /\ bf.result = <<0>>

\* the command the iteration of the while loop about to run executes
Command == bf.code[bf.locals.codePointer + 1]

\* an iteration of the while loop runs in this step
Iterates == bf.pc = "loop" /\ bf'.pc = "loop" /\ bf'.executed = bf.executed + 1

\* C13: '<' at pointer 0 moves to cell 29999 and '>' at 29999 to cell 0; '+'
\* on a cell of 255 gives 0 and '-' on a cell of 0 gives 255; away from these
\* ends pointer and cell move by one.
Wraps ==
  [][Iterates =>
       LET p == bf.locals.pointer
           q == bf'.locals.pointer
           cur == Cell(bf.locals.memory, p)
           new == Cell(bf'.locals.memory, p)
       IN /\ Command = "<" => q = (IF p = 0 THEN 29999 ELSE p - 1)
          /\ Command = ">" => q = (IF p = 29999 THEN 0 ELSE p + 1)
          /\ Command = "+" => new = (IF cur = 255 THEN 0 ELSE cur + 1)
          /\ Command = "-" => new = (IF cur = 0 THEN 255 ELSE cur - 1)
          /\ Command \in {"+", "-"} => q = p
          /\ Command \in {"<", ">"} => bf'.locals.memory = bf.locals.memory]_vars

\* "<-+" has returned: '<' has moved the pointer from 0 to 29999, '-' has set
\* the cell there from 0 to 255 and '+' has set it from 255 to 0
WrapsReached ==
  /\ bf.pc = "done"
  /\ bf.code = <<"<", "-", "+">>
  /\ bf.executed = 3
  /\ bf.locals.pointer = 29999
  /\ bf.locals.memory = <<>>

\* C14: under the default of maxSteps "+[-]" runs to its end for every input,
\* returns the empty output and leaves the cell under the pointer at 0; and
\* "+[-]." returns exactly one byte, of value 0.
ClearsCell ==
  (bf.pc = "done" /\ bf.maxSteps = DefaultMaxSteps) =>
    /\ bf.code = <<"+", "[", "-", "]">> =>
         /\ bf.locals.codePointer = Len(bf.code)
         /\ ~bf.locals.threw
         /\ bf.result = <<>>
         /\ Cell(bf.locals.memory, bf.locals.pointer) = 0
    /\ bf.code = <<"+", "[", "-", "]", ".">> =>
         /\ bf.locals.codePointer = Len(bf.code)
         /\ ~bf.locals.threw
         /\ bf.result = <<0>>

\* "+[-]." has returned under the default of maxSteps, given an input it does
\* not read
ClearsCellReached ==
  /\ bf.pc = "done"
  /\ bf.maxSteps = DefaultMaxSteps
  /\ bf.code = <<"+", "[", "-", "]", ".">>
  /\ bf.input = <<255>>
  /\ bf.executed = 5
  /\ bf.result = <<0>>

\* the individuals a step adds to population or newPopulation
Evaluated ==
  (Range(population') \cup Range(newPopulation'))
    \ (Range(population) \cup Range(newPopulation))

\* C15: every individual has fitness = max(0, trainAccuracy - min(0.1 x
\* length of its program, 5)), between 0 and 100 (here in 1/Unit of a point);
\* and the fitness an individual is given is the one it is given under every
\* other list of test cases.
FitnessFormula ==
  /\ [](\A ind \in Range(population) \cup Range(newPopulation) :
         LET tenth == (Len(ind.code) * Unit) \div 10
             penalty == IF tenth < 5 * Unit THEN tenth ELSE 5 * Unit
         IN /\ ind.fitness = (IF ind.trainAccuracy - penalty > 0
                                THEN ind.trainAccuracy - penalty ELSE 0)
            /\ 0 <= ind.fitness /\ ind.fitness <= 100 * Unit
            /\ 0 <= penalty /\ penalty <= 5 * Unit)
  /\ [][\A ind \in Evaluated :
          \A cases \in TestChoices :
            evaluateIndividual(ind.code, trainCases, cases).fitness = ind.fitness]_vars

\* the population holds, scored against a non-empty list of test cases that it
\* passes in part, the long genome with every training case passed and the
\* full penalty of 5, and a program with no training case passed and fitness 0
FitnessFormulaReached ==
  /\ pc = "idle"
  /\ call.op = "initialize"
  /\ testCases # <<>>
  /\ \E i, j \in DOMAIN population :
       /\ population[i].code = LongGenome
       /\ population[i].trainAccuracy = 100 * Unit
       /\ population[i].fitness = 95 * Unit
       /\ population[j].trainAccuracy = 0
       /\ population[j].fitness = 0
       /\ population[j].testAccuracy = 0
       /\ population[i].testAccuracy = 100 * Unit

\* C16: mutateProgram never returns the empty program, whatever the program
\* (the empty one included), the rate and the draws; where mutated is empty
\* before the return, or cut to nothing by maxLength, it returns "+", and
\* otherwise the first maxLength symbols of mutated.
NeverEmpty ==
  bf.pc = "mutated" =>
    /\ bf.result # <<>>
    /\ LET kept == SubSeq(bf.mutated, 1, Min(Len(bf.mutated), bf.maxLength))
       IN bf.result = (IF kept = <<>> THEN <<"+">> ELSE kept)

\* mutateProgram has deleted every symbol of a program of MaxCodeLen symbols
\* that are not '+', with room left under maxLength, and has returned "+"
NeverEmptyReached ==
  /\ bf.pc = "mutated"
  /\ bf.program = [i \in 1 .. MaxCodeLen |-> ","]
  /\ bf.mutationRate = 50
  /\ bf.maxLength = MaxCodeLen
  /\ bf.mutated = <<>>
  /\ bf.result = <<"+">>

\* C17: crossoverPrograms of two non-empty parents returns two non-empty
\* children, whichever strategy and cut points it draws.
ChildrenNotEmpty ==
  (bf.pc = "crossed" /\ bf.parent1 # <<>> /\ bf.parent2 # <<>>) =>
    /\ Len(bf.result) = 2
    /\ bf.result[1] # <<>>
    /\ bf.result[2] # <<>>

\* crossoverPrograms has returned, for two parents of one symbol each, the
\* children that single-point crossover builds at the cut points 0 and 0: each
\* child is the other parent
ChildrenNotEmptyReached ==
  /\ bf.pc = "crossed"
  /\ bf.parent1 = <<"+">>
  /\ bf.parent2 = <<",">>
  /\ bf.result = <<<<",">>, <<"+">>>>

\* C18: a step that replaces settings, trainCases or testCases leaves the
\* population, with every cached score, and the generation counter as they
\* are and runs no part of initialize() or evolve(); and every individual a
\* later step adds is scored with the cases that are then set.
UpdatesKeepPopulation ==
  /\ [][(settings' # settings \/ trainCases' # trainCases \/ testCases' # testCases)
         => /\ population' = population
            /\ generation' = generation
            /\ pc = "idle" /\ pc' = "idle"
            /\ newPopulation' = newPopulation]_vars
  /\ [][\A ind \in Evaluated :
          ind = evaluateIndividual(ind.code, trainCases', testCases')]_vars

\* evolve() has returned, after the training cases were replaced, a population
\* with an individual carried over that still has the score of the earlier
\* cases and a new individual scored with the cases now set
UpdatesKeepPopulationReached ==
  /\ Evolved
  /\ \E i, j \in DOMAIN population :
       /\ population[i] \in Range(call.prev)
       /\ population[i] # evaluateIndividual(population[i].code, trainCases, testCases)
       /\ population[i].trainAccuracy = 100 * Unit
       /\ population[j].code \notin Codes(call.prev)
       /\ population[j] = evaluateIndividual(population[j].code, trainCases, testCases)
       /\ population[j].trainAccuracy = 50 * Unit

\* the genomes of a list without their repetitions, in the order in which they
\* first occur
FirstOccurrences(seeds) ==
  LET first == {i \in DOMAIN seeds : \A j \in 1 .. i - 1 : seeds[j] # seeds[i]}
  IN [k \in 1 .. Cardinality(first) |->
        seeds[CHOOSE i \in first : Cardinality({j \in first : j <= i}) = k]]

\* the genomes initialize() is to take: the first floor(0.3 x populationSize)
\* of the distinct ones
SeedsDue ==
  LET distinct == FirstOccurrences(seedGenomes)
      most == (3 * settings.populationSize) \div 10
  IN SubSeq(distinct, 1, Min(most, Len(distinct)))

\* C19: while initialize() fills the population, the individuals at its front
\* are the first floor(0.3 x populationSize) distinct seed genomes in list
\* order, each once, and every individual behind them holds a program of the
\* generator; the population initialize() returns holds these individuals,
\* populationSize in all.
SeedsLimited ==
  /\ [](pc = "initialize" =>
         LET due == SeedsDue
             generated == InitializeCodes
         IN /\ Len(due) <= (3 * settings.populationSize) \div 10
            /\ Len(population) >= Len(due)
            /\ \A k \in DOMAIN population :
                 IF k <= Len(due)
                   THEN population[k].code = due[k]
                   ELSE population[k].code \in generated)
  /\ [][InitializeReturns =>
          LET due == SeedsDue
              generated == InitializeCodes
          IN /\ Len(population') = settings.populationSize
             /\ Range(due) \subseteq Codes(population')
             /\ Cardinality({k \in DOMAIN population' :
                               population'[k].code \notin generated}) <= Len(due)
             /\ \A k \in DOMAIN population' :
                  population'[k].code \in Range(due) \cup generated]_vars

\* initialize() has returned a population that holds the first and the third
\* genome of a list of four (the second repeats the first) and not the fourth
SeedsLimitedReached ==
  /\ pc = "idle"
  /\ call.op = "initialize"
  /\ Len(seedGenomes) = 4
  /\ seedGenomes[1] = seedGenomes[2]
  /\ Len(population) = 7
  /\ seedGenomes[1] \in Codes(population)
  /\ seedGenomes[3] \in Codes(population)
  /\ seedGenomes[4] \notin Codes(population)

Count(program, n, x) == Cardinality({k \in 1 .. n : program[k] = x})

\* C21: in every program generateRandomProgram returns, cut to maxLength or
\* not, every prefix holds at least as many '[' as ']': no ']' stands where
\* the loops opened before it are all closed.
PrefixesBalanced ==
  bf.pc = "generated" =>
    \A n \in 0 .. Len(bf.result) :
      Count(bf.result, n, "[") >= Count(bf.result, n, "]")

\* generateRandomProgram has drawn a loop and then more than maxLength allows,
\* and has returned the first maxLength symbols, an open loop at their end
PrefixesBalancedReached ==
  /\ bf.pc = "generated"
  /\ bf.length > bf.maxLength
  /\ bf.result = <<"[", "]", "[">>

\* C22: for maxLength >= 1, mutateProgram returns at most maxLength symbols,
\* whatever the program (one longer than maxLength included), the rate and
\* the draws of the three passes.
MutantFits ==
  (bf.pc = "mutated" /\ bf.maxLength >= 1) => Len(bf.result) <= bf.maxLength

\* mutateProgram has taken a program of MaxCodeLen symbols with maxLength 1,
\* has made it longer still, and has returned one symbol of it
MutantFitsReached ==
  /\ bf.pc = "mutated"
  /\ Len(bf.program) = MaxCodeLen
  /\ bf.maxLength = 1
  /\ Len(bf.mutated) > MaxCodeLen
  /\ Len(bf.result) = 1

\* C23: given one byte of input, the first ',' a call executes stores that
\* byte in the cell under the pointer and every later ',' stores 0 there;
\* given the empty input every ',' stores 0.  No other cell changes.
ReadsInput ==
  [][(Iterates /\ Command = "," /\ Len(bf.input) <= 1) =>
       LET p == bf.locals.pointer
           stored == IF Len(bf.input) = 1 /\ bf.reads = 0 THEN bf.input[1] ELSE 0
       IN /\ bf'.locals.pointer = p
          /\ bf'.locals.memory = Store(bf.locals.memory, p, stored)
          /\ Cell(bf'.locals.memory, p) = stored]_vars

\* ",,." has returned, given the byte 255: its first ',' has stored 255, its
\* second ',' has stored 0 over it
ReadsInputReached ==
  /\ bf.pc = "done"
  /\ bf.code = <<",", ",", ".">>
  /\ bf.input = <<255>>
  /\ bf.reads = 2
  /\ bf.result = <<0>>

\* How many loops are open after the first n symbols of code, a ']' met with
\* no loop open closing none.
RECURSIVE Depth(_, _)
Depth(code, n) ==
  IF n = 0 THEN 0
  ELSE LET before == Depth(code, n - 1)
       IN IF code[n] = "[" THEN before + 1
          ELSE IF code[n] = "]" /\ before > 0 THEN before - 1
          ELSE before

\* C24: the table buildBracketMap returns pairs brackets both ways and
\* properly nested: a '[' at i maps to a ']' at j > i and j maps to i, every
\* bracket between i and j has its partner between i and j; a ']' met with no
\* loop open and a '[' that no later ']' closes have no entry, every other
\* bracket has one.  (Indices count from 0, symbols of a sequence from 1.)
PairsBrackets ==
  bf.pc \in {"loop", "done"} =>
    LET code == bf.code
        map == bf.locals.bracketMap
        brackets == {k \in 0 .. Len(code) - 1 : code[k + 1] \in {"[", "]"}}
        opens == {k \in brackets : code[k + 1] = "["}
        closed(i) == \E n \in i + 2 .. Len(code) : Depth(code, n) = Depth(code, i)
        matched == {k \in brackets :
                      IF code[k + 1] = "[" THEN closed(k) ELSE Depth(code, k) > 0}
    IN /\ DOMAIN map = matched
       /\ \A k \in DOMAIN map : map[k] \in DOMAIN map /\ map[map[k]] = k
       /\ \A i \in DOMAIN map \cap opens :
            /\ i < map[i]
            /\ code[map[i] + 1] = "]"
            /\ \A k \in brackets :
                 (i < k /\ k < map[i]) =>
                    k \in DOMAIN map /\ i < map[k] /\ map[k] < map[i]

\* "][[]]" has returned after its first two commands, its first '[' jumping to
\* the last ']': in its table the first ']' and no other bracket is without
\* entry, and one loop is inside the other
PairsBracketsReached ==
  /\ bf.pc = "done"
  /\ bf.code = <<"]", "[", "[", "]", "]">>
  /\ bf.executed = 2
  /\ bf.locals.codePointer = 5
  /\ DOMAIN bf.locals.bracketMap = 1 .. 4
  /\ bf.locals.bracketMap[1] = 4
  /\ bf.locals.bracketMap[2] = 3

\* C30: in a call given bytes of 0..255, at every step every cell of the tape
\* holds a value in 0..255 and the pointer is in 0..29999; every byte put out
\* is in 0..255 and no more bytes are put out than iterations have run.
StaysInRange ==
  (bf.pc \in {"loop", "done"} /\ \A k \in DOMAIN bf.input : bf.input[k] \in 0 .. 255) =>
    LET c == bf.locals
    IN /\ DOMAIN c.memory \subseteq 0 .. 29999
       /\ \A q \in DOMAIN c.memory : c.memory[q] \in 0 .. 255
       /\ c.pointer \in 0 .. 29999
       /\ \A k \in DOMAIN c.output : c.output[k] \in 0 .. 255
       /\ Len(c.output) <= bf.executed
       /\ c.steps = bf.executed
       /\ c.output = bf.emitted

\* "<-." has returned: the pointer is on the last cell of the tape, the cell
\* holds 255 and 255 is the one byte put out
StaysInRangeReached ==
  /\ bf.pc = "done"
  /\ bf.code = <<"<", "-", ".">>
  /\ bf.locals.pointer = 29999
  /\ Cell(bf.locals.memory, 29999) = 255
  /\ bf.result = <<255>>

\* trainAccuracy is 100 and, where test cases exist, testAccuracy is 100
Perfect(ind) ==
  /\ ind.trainAccuracy = 100 * Unit
  /\ (Len(testCases) = 0 \/ ind.testAccuracy = 100 * Unit)

\* C27: whenever some individual of the population is perfect,
\* hasPerfectSolution() returns true.
PerfectFound ==
  (pc = "idle" /\ \E i \in DOMAIN population : Perfect(population[i])) =>
    hasPerfectSolution(population, testCases)

\* C29: with no seed genomes and the settings never replaced, maxProgramLength
\* at least 1, every program of the population, and of the population
\* evolve() is building, is non-empty and at most maxProgramLength long.
ProgramsFit ==
  (seedGenomes = <<>> /\ settings.maxProgramLength >= 1) =>
    /\ \A i \in DOMAIN population :
         /\ population[i].code # <<>>
         /\ Len(population[i].code) <= settings.maxProgramLength
    /\ \A i \in DOMAIN newPopulation :
         /\ newPopulation[i].code # <<>>
         /\ Len(newPopulation[i].code) <= settings.maxProgramLength

\* evolve() has returned a population that holds a program of maxProgramLength
\* symbols the population before did not hold, maxProgramLength being less
\* than every length the generator is asked for
ProgramsFitReached ==
  /\ Evolved
  /\ settings.maxProgramLength = MaxProgLen
  /\ \E i \in DOMAIN population :
       /\ Len(population[i].code) = MaxProgLen
       /\ population[i].code \notin Codes(call.prev)

\* the callback of a timer returns in this step
TickReturns == app.running = "tick" /\ app'.running = "none"

\* the callback of timer t starts in this step
TickStarts(t) == app.running = "none" /\ app'.running = "tick" /\ app'.tick = t

\* C25: the callback of a timer that finds, after its call of evolve(),
\* hasPerfectSolution() true or the generation counter at maxGenerations or
\* beyond, cancels that timer; and the callback of a timer cancelled so never
\* starts again, so that the timer calls evolve() no more.
StopsTimer ==
  [][/\ (TickReturns /\ (hasPerfectSolution(population, testCases)
                           \/ generation >= AppMaxGenerations)) =>
          /\ app.tick \notin app'.timers
          /\ app.tick \in app'.cancelled
     /\ \A t \in 1 .. MaxTimers : TickStarts(t) => t \notin app.cancelled]_vars

\* the first timer has been cancelled by its callback at maxGenerations, no
\* perfect solution found, and generations are left for another call
StopsTimerReached ==
  /\ app.running = "none"
  /\ app.cancelled = {1}
  /\ app.timers = {}
  /\ ~app.isRunning
  /\ generation = AppMaxGenerations
  /\ generation < MaxTicks
  /\ ~hasPerfectSolution(population, testCases)

\* C26: the callback of a timer passes the best individual to
\* saveGenomeToLibrary only when nothing was saved before in this run or its
\* trainAccuracy is more than 10 above that of the individual saved last.
SavesOnlyBetter ==
  [][(TickReturns /\ app'.log # app.log) =>
       \/ app.log = <<>>
       \/ population[1].trainAccuracy
            > app.log[Len(app.log)].trainAccuracy + 10 * Unit]_vars

\* C28: at most one timer is active; and while pause, stop or reset was the
\* last of the handlers start, pause, stop and reset to run, no callback of a
\* timer starts, so that evolve() is not called.
OneTimer ==
  /\ [](Cardinality(app.timers) <= 1)
  /\ [][\A t \in 1 .. MaxTimers : TickStarts(t) => ~app.halted]_vars

\* startEvolution has set a second timer while the first was active, and
\* pause has run since: no timer is active, with generations left to evolve
OneTimerReached ==
  /\ app.running = "none"
  /\ app.overlapped = {1}
  /\ app.intervals = 2
  /\ app.halted
  /\ app.isPaused
  /\ app.ga
  /\ app.timers = {}
  /\ generation < AppMaxGenerations

====
